---- MODULE Spec2Model ----
(***************************************************************************)
(* Model of compiler/src/ast.rs: make_ast, the tiered operator-precedence  *)
(* reduction that turns the parser's flat doubly-linked node arena into a  *)
(* tree, followed by the root walk.  Arena indices are 0-based as in the   *)
(* source; Option<usize> is an index or None.                              *)
(***************************************************************************)
EXTENDS Integers, Sequences, FiniteSets, TLC

VARIABLES input, nodes, sub_expressions, op_locations, precedence, idx,
          root_index, ast, pc

vars == <<input, nodes, sub_expressions, op_locations, precedence, idx,
          root_index, ast, pc>>

(* ---------------- bounds of the explored inputs ---------------- *)

\* longest input arena explored
MaxLen == 5

\* most operators in a chain of one binary tier (second specification)
MaxOps == 3

(* ---------------- data model ---------------- *)

\* Option::None for the index-valued link fields
None == -1

LeafClasses == {"Literal", "IterationOutput", "IterationSkip",
                "IterationContinue", "IterationComplete"}

BinaryClasses == {"Decimal", "Access"}

PrefixClasses == {"Negation", "AbsoluteValue", "Not"}

\* token types a Literal node carries in the repository's tests
LiteralTokenTypes == {"Number", "Character", "CharacterList", "Identifier",
                      "SymbolOperator", "UnitLiteral", "Input", "Result"}

\* leaf classifications used in the chains of the second specification
AssocLeafClasses == {"Literal", "IterationOutput", "IterationComplete"}

\* token type given to the Literal nodes of the inputs with operators (make_ast
\* never reads a token)
ChainTokenTypes == {"Number"}

Size(a) == Cardinality(DOMAIN a)

Token(v, tt) == [value |-> v, token_type |-> tt]

Node(c, tok, l, r, p) ==
    [classification |-> c, token |-> tok, left |-> l, right |-> r, parent |-> p]

\* variant: the unit node built with a Number token
UnitNode_Number == Node("Literal", Token("", "Number"), None, None, None)

\* the node make_ast builds for an empty arena
UnitNode == Node("Literal", Token("", "UnitLiteral"), None, None, None)

\* the token the front end attaches to a node of classification c
InputToken(c, tt) ==
    IF c = "Literal" THEN Token(IF tt = "UnitLiteral" THEN "" ELSE "v", tt)
    ELSE IF c \in LeafClasses THEN Token("it", c)
    ELSE Token("op", "SymbolOperator")

(* ---------------- well-formed parser output ---------------- *)

\* cs is a sequence of classifications of the shape
\* prefix-op* leaf (binary-op prefix-op* leaf)*
WellFormedShape(cs) ==
    /\ Len(cs) >= 1
    /\ cs[Len(cs)] \in LeafClasses
    /\ \A k \in 1..Len(cs) :
          /\ cs[k] \in BinaryClasses => (k > 1 /\ cs[k-1] \in LeafClasses)
          /\ cs[k] \in LeafClasses => (k = Len(cs) \/ cs[k+1] \in BinaryClasses)
          /\ cs[k] \in PrefixClasses => cs[k+1] \in LeafClasses \cup PrefixClasses

\* the flat doubly-linked arena for a classification sequence: every node's
\* left/right are its immediate neighbours, all parents unset
FlatArena(cs, tt) ==
    [i \in 0..(Len(cs) - 1) |->
        Node(cs[i+1], InputToken(cs[i+1], tt),
             IF i = 0 THEN None ELSE i - 1,
             IF i = Len(cs) - 1 THEN None ELSE i + 1,
             None)]

AllClasses == LeafClasses \cup BinaryClasses \cup PrefixClasses

\* the caller's ParseResult for a classification sequence and a seed
ParseResult(cs, tt, seed) ==
    [nodes |-> FlatArena(cs, tt), sub_expressions |-> <<seed>>]

\* the ParseResult of the empty program
EmptyParseResult == [nodes |-> <<>>, sub_expressions |-> <<>>]

(* ---------------- make_ast ---------------- *)

\* the fixity of each tier of op_locations
TierOp == <<"Binary", "Binary", "UnaryLeft">>

\* the bucket index the match assigns to a classification (leaves: none)
Tier(c) ==
    CASE c = "Decimal" -> 0
      [] c = "Access" -> 1
      [] c \in PrefixClasses -> 2
      [] OTHER -> None

RECURSIVE Locations_Reversed(_, _, _)
\* variant: the bucket is filled by prepending, so it ends in right-to-left order
Locations_Reversed(ns, p, i) ==
    IF i >= Size(ns) THEN <<>>
    ELSE Locations_Reversed(ns, p, i + 1)
         \o (IF Tier(ns[i].classification) = p THEN <<i>> ELSE <<>>)

RECURSIVE Locations(_, _, _)
\* indices i..Size(ns)-1 whose node falls in tier p, in arena order
Locations(ns, p, i) ==
    IF i >= Size(ns) THEN <<>>
    ELSE (IF Tier(ns[i].classification) = p THEN <<i>> ELSE <<>>)
         \o Locations(ns, p, i + 1)

\* op_locations after the bucketing pass
Buckets(ns) ==
    [t \in 1..3 |-> [op |-> TierOp[t], locs |-> Locations(ns, t - 1, 0)]]

\* variant: the Literal test is dropped, a consumed operand keeps its links
Consume_KeepLinks(ns, i, loc) == [ns EXCEPT ![i].parent = loc]

\* variant: the consumed operand is overwritten by a fresh leaf under loc
Consume_Overwrite(ns, i, loc) ==
    [ns EXCEPT ![i] = Node("Literal", Token("", "UnitLiteral"), None, None, loc)]

\* an operand i becomes a child of loc; a Literal is detached from the chain
Consume(ns, i, loc) ==
    [ns EXCEPT ![i] =
        IF @.classification = "Literal"
        THEN [@ EXCEPT !.parent = loc, !.left = None, !.right = None]
        ELSE [@ EXCEPT !.parent = loc]]

\* new_right: the right operand's own right link, read before it is consumed
NewRight(ns, right) == IF right = None THEN None ELSE ns[right].right

\* variant: the fixity test is dropped, every operator consumes its left
ReduceOp_AlwaysLeft(ns, loc, op) ==
    LET left == ns[loc].left
        right == ns[loc].right
        n1 == IF left # None THEN Consume(ns, left, loc) ELSE ns
        new_right == NewRight(n1, right)
        n2 == IF right # None THEN Consume(n1, right, loc) ELSE n1
    IN  IF new_right # None THEN [n2 EXCEPT ![new_right].left = loc] ELSE n2

\* one iteration of the inner reduction loop for operator loc of fixity op
ReduceOp(ns, loc, op) ==
    LET left == ns[loc].left
        right == ns[loc].right
        n1 == IF op # "UnaryLeft" /\ left # None THEN Consume(ns, left, loc) ELSE ns
        new_right == NewRight(n1, right)
        n2 == IF right # None THEN Consume(n1, right, loc) ELSE n1
    IN  IF new_right # None THEN [n2 EXCEPT ![new_right].left = loc] ELSE n2

(* ---------------- state machine ---------------- *)

\* the locals of make_ast on entry with argument `input`
Entry ==
    /\ nodes = input.nodes
    /\ sub_expressions = input.sub_expressions
    /\ op_locations = <<>>
    /\ precedence = 0
    /\ idx = 0
    /\ root_index = None
    /\ ast = [nodes |-> <<>>, root |-> None, sub_roots |-> <<>>]
    /\ pc = "start"

Init ==
    /\ \/ input = EmptyParseResult
       \/ \E n \in 1..MaxLen :
             \E cs \in {c \in [1..n -> AllClasses] : WellFormedShape(c)} :
                \E tt \in (IF n = 1 THEN LiteralTokenTypes ELSE ChainTokenTypes) :
                   \E seed \in 0..(n - 1) : input = ParseResult(cs, tt, seed)
    /\ Entry

\* lines 18-33: the empty arena short-circuits to the unit node
MakeEmpty ==
    /\ pc = "start"
    /\ Size(nodes) = 0
    /\ ast' = [nodes |-> [i \in {0} |-> UnitNode], root |-> 0, sub_roots |-> <<>>]
    /\ pc' = "done"
    /\ UNCHANGED <<input, nodes, sub_expressions, op_locations, precedence, idx,
                   root_index>>

\* lines 35-57: allocate op_locations and bucket every operator index
Bucket ==
    /\ pc = "start"
    /\ Size(nodes) > 0
    /\ op_locations' = Buckets(nodes)
    /\ precedence' = 0
    /\ idx' = 0
    /\ pc' = "reduce"
    /\ UNCHANGED <<input, nodes, sub_expressions, root_index, ast>>

\* lines 60-103: reduce the next operator of the current tier
Reduce ==
    /\ pc = "reduce"
    /\ precedence < 3
    /\ idx < Len(op_locations[precedence + 1].locs)
    /\ nodes' = ReduceOp(nodes, op_locations[precedence + 1].locs[idx + 1],
                         op_locations[precedence + 1].op)
    /\ idx' = idx + 1
    /\ UNCHANGED <<input, sub_expressions, op_locations, precedence, root_index,
                   ast, pc>>

\* line 59: the current tier is exhausted, the outer loop advances
NextTier ==
    /\ pc = "reduce"
    /\ precedence < 3
    /\ idx = Len(op_locations[precedence + 1].locs)
    /\ precedence' = precedence + 1
    /\ idx' = 0
    /\ UNCHANGED <<input, nodes, sub_expressions, op_locations, root_index, ast, pc>>

\* lines 106-107: the walk starts at the first seed
SeedRoot ==
    /\ pc = "reduce"
    /\ precedence = 3
    /\ Len(sub_expressions) > 0
    /\ root_index' = sub_expressions[1]
    /\ pc' = "climb"
    /\ UNCHANGED <<input, nodes, sub_expressions, op_locations, precedence, idx, ast>>

\* lines 109-112: one iteration of the parent walk
Climb ==
    /\ pc = "climb"
    /\ nodes[root_index].parent # None
    /\ root_index' = nodes[root_index].parent
    /\ UNCHANGED <<input, nodes, sub_expressions, op_locations, precedence, idx,
                   ast, pc>>

\* lines 114-118: the arena and the root are returned
Return ==
    /\ pc = "climb"
    /\ nodes[root_index].parent = None
    /\ ast' = [nodes |-> nodes, root |-> root_index, sub_roots |-> <<>>]
    /\ pc' = "done"
    /\ UNCHANGED <<input, nodes, sub_expressions, op_locations, precedence, idx,
                   root_index>>

Next == MakeEmpty \/ Bucket \/ Reduce \/ NextTier \/ SeedRoot \/ Climb \/ Return

Spec == Init /\ [][Next]_vars

(* ---- second specification: longer chains of one binary tier ---- *)

\* leaf op leaf op ... leaf with k operators, all of classification c
SameTierShape(k, c, leaves) ==
    [j \in 1..(2 * k + 1) |-> IF j % 2 = 0 THEN c ELSE leaves[(j + 1) \div 2]]

InitAssoc ==
    /\ \/ input = EmptyParseResult
       \/ \E k \in 1..MaxOps : \E c \in BinaryClasses :
             \E lv \in [1..(k + 1) -> AssocLeafClasses] :
                \E tt \in ChainTokenTypes : \E seed \in 0..(2 * k) :
                   input = ParseResult(SameTierShape(k, c, lv), tt, seed)
    /\ Entry

SpecAssoc == InitAssoc /\ [][Next]_vars

(* ---------------- helpers of the properties ---------------- *)

Done == pc = "done" /\ Size(input.nodes) > 0

\* classification of input node i (0-based), "" outside the arena
Cls(i) == IF i \in DOMAIN input.nodes THEN input.nodes[i].classification ELSE ""

IsOp(i) == Cls(i) \in BinaryClasses \cup PrefixClasses

RECURSIVE Up(_, _, _)
\* the node reached from i after following at most k parent links
Up(ns, i, k) ==
    IF k = 0 \/ ns[i].parent = None THEN i ELSE Up(ns, ns[i].parent, k - 1)

Kids(ns, i) == {ns[i].left, ns[i].right} \ {None}

RECURSIVE Reach(_, _)
\* the nodes reachable from the set S by left and right links
Reach(ns, S) ==
    LET T == S \cup UNION {Kids(ns, i) : i \in S}
    IN  IF T = S THEN S ELSE Reach(ns, T)

\* the (node, side) pairs of R whose link on that side points at j
Incoming(ns, R, j) ==
    {<<i, "l">> : i \in {x \in R : ns[x].left = j}}
    \cup {<<i, "r">> : i \in {x \in R : ns[x].right = j}}

\* the operator the reduction loop is about to take, None when there is none
Pending ==
    IF pc = "reduce" /\ precedence < 3 /\ idx < Len(op_locations[precedence + 1].locs)
    THEN op_locations[precedence + 1].locs[idx + 1] ELSE None

(* ---------------- properties ---------------- *)

\* C1: after all tiers are reduced the parent links are acyclic and exactly one
\* node has parent = None; the parent walk from every node ends at that node,
\* which is AST.root, whatever the seed.
C1_SingleRoot ==
    Done =>
        /\ Cardinality({i \in DOMAIN ast.nodes : ast.nodes[i].parent = None}) = 1
        /\ \A i \in DOMAIN ast.nodes :
              Up(ast.nodes, i, Size(ast.nodes)) = ast.root

\* C2: in the returned AST the nodes reachable from root by left and right
\* links form a tree: the root has no incoming link and every other reachable
\* node is the left or right of exactly one reachable node, once.
C2_ReachableIsTree ==
    Done =>
        LET R == Reach(ast.nodes, {ast.root})
        IN  \A j \in R :
               Cardinality(Incoming(ast.nodes, R, j)) = IF j = ast.root THEN 0 ELSE 1

\* C3: when two operators of different tiers are the two neighbours of one
\* operand, the tighter-tier operator ends as the child of the looser one on
\* that side and the operand as the child of the tighter one, whichever of the
\* two is on the left; for Decimal-then-Access A.B.C the Decimal keeps A and B
\* and the Access is the root over the Decimal and C.
C3_TierOrderIsBindingOrder ==
    Done =>
        /\ \A k \in DOMAIN ast.nodes :
              (/\ Cls(k) \in LeafClasses
               /\ IsOp(k - 1) /\ IsOp(k + 1)
               /\ Tier(Cls(k - 1)) # Tier(Cls(k + 1)))
              => LET lt == Tier(Cls(k - 1)) < Tier(Cls(k + 1))
                     tight == IF lt THEN k - 1 ELSE k + 1
                     loose == IF lt THEN k + 1 ELSE k - 1
                 IN  /\ ast.nodes[tight].parent = loose
                     /\ (IF lt THEN ast.nodes[loose].left ELSE ast.nodes[loose].right) = tight
                     /\ ast.nodes[k].parent = tight
        /\ (Size(input.nodes) = 5 /\ Cls(1) = "Decimal" /\ Cls(3) = "Access")
           => /\ ast.nodes[1].left = 0 /\ ast.nodes[1].right = 2
              /\ ast.nodes[1].parent = 3
              /\ ast.nodes[3].parent = None
              /\ ast.nodes[3].left = 1 /\ ast.nodes[3].right = 4
              /\ ast.root = 3

\* the input is leaf op leaf op ... leaf with at least two operators, all of
\* one binary classification
SameTierChain ==
    /\ Size(input.nodes) >= 5
    /\ Size(input.nodes) % 2 = 1
    /\ \A i \in DOMAIN input.nodes :
          IF i % 2 = 1 THEN Cls(i) = Cls(1) /\ Cls(1) \in BinaryClasses
          ELSE Cls(i) \in LeafClasses

\* C4: same-tier binary operators are left-associative: they are bucketed in
\* left-to-right order, every operator but the leftmost has the operator on
\* its left as left child and the leaf on its right as right child, every
\* operator but the rightmost has the operator on its right as parent, and the
\* rightmost operator is the root.
C4_LeftAssociative ==
    (Done /\ SameTierChain) =>
        LET n == Size(input.nodes)
            locs == op_locations[Tier(Cls(1)) + 1].locs
        IN  /\ locs = [j \in 1..((n - 1) \div 2) |-> 2 * j - 1]
            /\ ast.nodes[1].left = 0 /\ ast.nodes[1].right = 2
            /\ \A i \in DOMAIN ast.nodes :
                  (i % 2 = 1) =>
                     /\ i > 1 => (ast.nodes[i].left = i - 2 /\ ast.nodes[i].right = i + 1)
                     /\ i < n - 2 => ast.nodes[i].parent = i + 2
                     /\ i = n - 2 => (ast.nodes[i].parent = None /\ ast.root = i)

C4_Witness ==
    /\ Done /\ SameTierChain
    /\ Size(input.nodes) = 7
    /\ Cls(1) = "Access"
    /\ input.sub_expressions[1] = 0
    /\ ast.nodes[3].left = 1

\* C5: at the completion of every reduction, and in the returned AST, a
\* Literal whose parent is set has left = None and right = None.
C5_ConsumedLiteralDetached ==
    /\ \A i \in DOMAIN nodes :
          (nodes[i].classification = "Literal" /\ nodes[i].parent # None)
          => (nodes[i].left = None /\ nodes[i].right = None)
    /\ \A i \in DOMAIN ast.nodes :
          (ast.nodes[i].classification = "Literal" /\ ast.nodes[i].parent # None)
          => (ast.nodes[i].left = None /\ ast.nodes[i].right = None)

\* the input is Literal, Decimal-or-Access, Literal
BinaryTriple ==
    /\ Size(input.nodes) = 3
    /\ Cls(0) = "Literal" /\ Cls(1) \in BinaryClasses /\ Cls(2) = "Literal"

\* C6: for A op B with op Decimal or Access and A, B Literals, for any seed,
\* op is the root with left = A and right = B, and A and B have parent = op
\* and no links of their own.
C6_BinaryComposition ==
    (Done /\ BinaryTriple) =>
        /\ ast.nodes[1].parent = None
        /\ ast.nodes[1].left = 0 /\ ast.nodes[1].right = 2
        /\ \A i \in {0, 2} :
              /\ ast.nodes[i].parent = 1
              /\ ast.nodes[i].left = None /\ ast.nodes[i].right = None
        /\ ast.root = 1
        /\ Size(ast.nodes) = 3

C6_Witness ==
    /\ Done /\ BinaryTriple
    /\ Cls(1) = "Decimal"
    /\ input.sub_expressions[1] = 2
    /\ ast.root = 1

\* the step is the reduction of a unary-prefix operator
PrefixStep == Pending # None /\ precedence = 2 /\ idx' = idx + 1

\* the input is a prefix operator followed by a Literal
PrefixPair ==
    /\ Size(input.nodes) = 2
    /\ Cls(0) \in PrefixClasses /\ Cls(1) = "Literal"

\* C7: the reduction of a unary-prefix operator sets a parent only on its
\* right neighbour and leaves the node on its left (linked or adjacent)
\* untouched; for `op A` the result is op as root with no left, right = A,
\* and A a detached child of op.
C7_PrefixConsumesRightOnly ==
    [][ /\ PrefixStep =>
            /\ \A i \in DOMAIN nodes :
                  nodes'[i].parent # nodes[i].parent => i = nodes[Pending].right
            /\ nodes[Pending].left # None
                  => nodes'[nodes[Pending].left] = nodes[nodes[Pending].left]
            /\ Pending > 0 => nodes'[Pending - 1] = nodes[Pending - 1]
        /\ (pc' = "done" /\ PrefixPair) =>
            /\ ast'.nodes[0].parent = None
            /\ ast'.nodes[0].left = None /\ ast'.nodes[0].right = 1
            /\ ast'.nodes[1].parent = 0
            /\ ast'.nodes[1].left = None /\ ast'.nodes[1].right = None
            /\ ast'.root = 0 ]_vars

C7_Witness ==
    /\ Done
    /\ Size(input.nodes) = 3
    /\ Cls(0) \in PrefixClasses /\ Cls(1) \in PrefixClasses
    /\ ast.nodes[1].left = 0
    /\ ast.nodes[2].parent = 1
    /\ ast.nodes[0].parent = None

\* C8: an empty arena yields exactly one unit-literal node without bucketing
\* and without reading sub_expressions; a single leaf node is returned
\* unchanged; in both cases root = 0 and sub_roots is empty.
C8_OperatorFreeInput ==
    /\ (pc = "done" /\ Size(input.nodes) = 0) =>
          /\ DOMAIN ast.nodes = {0}
          /\ ast.nodes[0] = [classification |-> "Literal",
                             token |-> [value |-> "", token_type |-> "UnitLiteral"],
                             left |-> None, right |-> None, parent |-> None]
          /\ op_locations = <<>>
          /\ root_index = None
          /\ ast.root = 0 /\ ast.sub_roots = <<>>
    /\ (pc = "done" /\ Size(input.nodes) = 1 /\ Cls(0) \in LeafClasses) =>
          /\ ast.nodes = input.nodes
          /\ ast.root = 0 /\ ast.sub_roots = <<>>

C8_Witness ==
    /\ pc = "done"
    /\ Size(input.nodes) = 0
    /\ ast.root = 0

\* C9: for a non-empty input the arena keeps its size at every step and in the
\* result, and every index keeps its classification and token.
C9_IndexStability ==
    Size(input.nodes) > 0 =>
        /\ DOMAIN nodes = DOMAIN input.nodes
        /\ \A i \in DOMAIN nodes :
              /\ nodes[i].classification = input.nodes[i].classification
              /\ nodes[i].token = input.nodes[i].token
        /\ pc = "done" =>
              /\ DOMAIN ast.nodes = DOMAIN input.nodes
              /\ \A i \in DOMAIN ast.nodes :
                    /\ ast.nodes[i].classification = input.nodes[i].classification
                    /\ ast.nodes[i].token = input.nodes[i].token

C9_Witness ==
    /\ Done
    /\ Size(input.nodes) = 5
    /\ \E i \in DOMAIN nodes : nodes[i] # input.nodes[i]

\* C10: when an operator is taken from its bucket, every neighbour link its
\* fixity consumes points at a node whose parent is still None.
C10_NeighboursUnconsumed ==
    Pending # None =>
        /\ (op_locations[precedence + 1].op # "UnaryLeft" /\ nodes[Pending].left # None)
              => nodes[nodes[Pending].left].parent = None
        /\ nodes[Pending].right # None
              => nodes[nodes[Pending].right].parent = None

TypeOK ==
    /\ pc \in {"start", "reduce", "climb", "done"}
    /\ precedence \in 0..3
    /\ \A i \in DOMAIN nodes :
          /\ nodes[i].left \in {None} \cup DOMAIN nodes
          /\ nodes[i].right \in {None} \cup DOMAIN nodes
          /\ nodes[i].parent \in {None} \cup DOMAIN nodes
====
